---- MODULE Spec2Model ----
(***************************************************************************)
(* Model of mossblaser/bin_computer.                                       *)
(*                                                                         *)
(*   firmware/main.py    the device control loop (specification Spec)      *)
(*   server/bin_server.py  relative_date, ui_inkscape_actions and          *)
(*                       get_next_update (specifications SpecNextUpdate,   *)
(*                       SpecNextUpdateFair and SpecRelativeDate),         *)
(*                       get_bin_collection_dates (SpecScrape) and         *)
(*                       get_index (SpecHandler)                           *)
(*   both                the device fetching from get_index (SpecComposed) *)
(*                                                                         *)
(* Text is modelled as a sequence of one-character strings, dates as day   *)
(* numbers with day 0 a Monday (weekday = day % 7, Monday = 0).            *)
(***************************************************************************)
EXTENDS Integers, Sequences, FiniteSets

VARIABLES
    \* ---- firmware/main.py ----
    pc,                   \* position of the device in its loop
    exp_backoff_minutes,  \* main.py:17
    next_update_minutes,  \* main.py:38,41,58
    r,                    \* the response of mrequests.get (main.py:22)
    display,              \* what the panel shows after the last badger.update()
    exc,                  \* where the exception being handled was raised
    outcome,              \* how the latest completed try/except ended
    fails,                \* length of the current run of handled failures
    slept,                \* argument of the latest sleep_for call
    final_sleep,          \* TRUE once the finally block has called sleep_for
    \* ---- server/bin_server.py: get_next_update ----
    g_pc,                 \* position inside get_next_update
    bins,                 \* its argument bins: colour -> date
    ref,                  \* its argument now, as passed by the caller
    g_now,                \* its local now (the scanning cursor)
    g_actions,            \* its local actions (the baseline)
    \* ---- server/bin_server.py: relative_date called directly ----
    rd_now, rd_then, rd_out,
    \* ---- server/bin_server.py: get_bin_collection_dates ----
    s_pc,                 \* position inside get_bin_collection_dates
    s_out,                \* its local out: colour -> date
    s_seen,               \* how many service items of each title were met
    \* ---- server/bin_server.py: get_index ----
    h_pc,                 \* position inside get_index
    h_bins,               \* its local bins
    h_today,              \* date.today() as read by render_ui
    h_png,                \* TRUE once render_ui has returned the image
    h_scan_day,           \* date.today() as read by get_next_update
    next_update_date,     \* bin_server.py:211
    h_now,                \* datetime.now() as read at bin_server.py:214
    next_update_seconds   \* bin_server.py:216

devVars == <<pc, exp_backoff_minutes, next_update_minutes, r, display, exc,
             outcome, fails, slept, final_sleep>>
scanVars == <<g_pc, bins, ref, g_now, g_actions>>
rdVars == <<rd_now, rd_then, rd_out>>
scrapeVars == <<s_pc, s_out, s_seen>>
handlerVars == <<h_pc, h_bins, h_today, h_png, h_scan_day, next_update_date,
                 h_now, next_update_seconds>>
srvVars == <<scrapeVars, handlerVars>>
vars == <<devVars, scanVars, rdVars, srvVars>>

Min(a, b) == IF a <= b THEN a ELSE b

(***************************************************************************)
(* Bounds of the model.                                                    *)
(***************************************************************************)
MaxFails == 13      \* longest run of consecutive handled failures explored
MaxHeaders == 2     \* most header lines in one response

(***************************************************************************)
(* Text: str.lower, str.strip, str.partition, int                          *)
(***************************************************************************)
UpperAlpha == <<"A","B","C","D","E","F","G","H","I","J","K","L","M",
                "N","O","P","Q","R","S","T","U","V","W","X","Y","Z">>
LowerAlpha == <<"a","b","c","d","e","f","g","h","i","j","k","l","m",
                "n","o","p","q","r","s","t","u","v","w","x","y","z">>
Digits == <<"0","1","2","3","4","5","6","7","8","9">>
Whitespace == {" ", "\t", "\r", "\n"}

LowerChar(c) ==
    IF \E i \in 1..26 : UpperAlpha[i] = c
    THEN LowerAlpha[CHOOSE i \in 1..26 : UpperAlpha[i] = c]
    ELSE c

\* A lower() that forgets to fold case.
lower_identity(s) == s

\* str.lower()
lower(s) == [i \in 1..Len(s) |-> LowerChar(s[i])]

\* str.strip(): drop leading and trailing whitespace
strip(s) ==
    LET keep == {i \in 1..Len(s) : s[i] \notin Whitespace}
    IN  IF keep = {} THEN <<>>
        ELSE SubSeq(s, CHOOSE i \in keep : \A j \in keep : i <= j,
                       CHOOSE i \in keep : \A j \in keep : i >= j)

\* str.partition(":"): (text before the first colon, text after it); when
\* there is no colon the whole text is the head and the tail is empty
partition(s) ==
    LET at == {i \in 1..Len(s) : s[i] = ":"}
    IN  IF at = {} THEN [key |-> s, value |-> <<>>]
        ELSE LET i == CHOOSE i \in at : \A j \in at : i <= j
             IN  [key |-> SubSeq(s, 1, i - 1), value |-> SubSeq(s, i + 1, Len(s))]

IsDigit(c) == \E i \in 1..10 : Digits[i] = c
DigitVal(c) == (CHOOSE i \in 1..10 : Digits[i] = c) - 1

RECURSIVE DigitsValue(_)
DigitsValue(s) ==
    IF s = <<>> THEN 0
    ELSE DigitsValue(SubSeq(s, 1, Len(s) - 1)) * 10 + DigitVal(s[Len(s)])

ValueError == [err |-> TRUE, val |-> 0]

\* An int() that reads unparseable text as the 24 hour default, in seconds.
int_default(s) ==
    LET t == strip(s)
        body == IF t # <<>> /\ t[1] \in {"+", "-"} THEN Tail(t) ELSE t
    IN  IF body = <<>> \/ \E i \in 1..Len(body) : ~IsDigit(body[i])
        THEN [err |-> FALSE, val |-> 24 * 60 * 60]
        ELSE [err |-> FALSE,
              val |-> IF t[1] = "-" THEN 0 - DigitsValue(body) ELSE DigitsValue(body)]

\* int(text): optional surrounding whitespace, an optional sign, then one or
\* more decimal digits; anything else raises ValueError
int(s) ==
    LET t == strip(s)
        body == IF t # <<>> /\ t[1] \in {"+", "-"} THEN Tail(t) ELSE t
    IN  IF body = <<>> \/ \E i \in 1..Len(body) : ~IsDigit(body[i])
        THEN ValueError
        ELSE [err |-> FALSE,
              val |-> IF t[1] = "-" THEN 0 - DigitsValue(body) ELSE DigitsValue(body)]

(***************************************************************************)
(* firmware/main.py: responses the device may receive                      *)
(***************************************************************************)
XNextUpdate == <<"X","-","N","e","x","t","-","U","p","d","a","t","e">>

HeaderKeys ==
    { XNextUpdate,
      <<"x","-","N","E","X","T","-","u","p","d","a","t","e"," ">>,
      <<"C","o","n","t","e","n","t","-","T","y","p","e">> }

HeaderValues ==
    { <<" ","3","6","0","0","\r","\n">>,     \* 60 minutes
      <<" ","5","9">>,                       \* less than a minute
      <<" ","-","6","1">>,                   \* negative
      <<" ","a","b","c","\r","\n">> }        \* not an integer

\* raw header lines as mrequests saves them, and one line without a colon
HeaderLines ==
    { k \o <<":">> \o v : k \in HeaderKeys, v \in HeaderValues }
        \cup { <<"H","T","T","P">> }

RECURSIVE SeqsUpTo(_, _)
SeqsUpTo(S, n) ==
    IF n = 0 THEN { <<>> }
    ELSE LET shorter == SeqsUpTo(S, n - 1)
         IN  shorter \cup { Append(q, x) : q \in shorter, x \in S }

HeaderLists == SeqsUpTo(HeaderLines, MaxHeaders)

StatusCodes == {200, 404}

NoResponse == [status |-> 0, png_ok |-> FALSE, headers |-> <<>>]

Responses ==
    [status : StatusCodes, png_ok : BOOLEAN, headers : HeaderLists]

(***************************************************************************)
(* firmware/main.py:35-41: the for/else over r.headers                     *)
(***************************************************************************)
\* is this header line the X-Next-Update header? (main.py:36-37)
IsNextUpdate(line) ==
    strip(lower(partition(line).key)) = lower(XNextUpdate)

\* the value of next_update_minutes the loop computes, or ValueError
NextUpdateFromHeaders(headers) ==
    LET hits == {i \in 1..Len(headers) : IsNextUpdate(headers[i])}
    IN  IF hits = {} THEN [err |-> FALSE, val |-> 24 * 60]
        ELSE LET first == CHOOSE i \in hits : \A j \in hits : i <= j
                 secs == int(strip(partition(headers[first]).value))
             IN  IF secs.err THEN ValueError
                 ELSE [err |-> FALSE, val |-> secs.val \div 60]

(***************************************************************************)
(* firmware/main.py:57-59: exponential backoff                             *)
(***************************************************************************)
\* Doubling with the cap forgotten.
DoubleBackoffUncapped(b) == b * 2

DoubleBackoff(b) == Min(24 * 60, b * 2)

(***************************************************************************)
(* firmware/main.py: the control loop, one action per stage of a cycle     *)
(***************************************************************************)
InLoop == pc \in {"CONNECTING", "FETCHING", "DISPLAYING_SUCCESS",
                  "DISPLAYING_ERROR", "SLEEPING"}

DevInit ==
    /\ pc = "CONNECTING"
    /\ exp_backoff_minutes = 1
    /\ next_update_minutes = 0
    /\ r = NoResponse
    /\ display = "stale"
    /\ exc = "none"
    /\ outcome = "none"
    /\ fails = 0
    /\ slept = 0
    /\ final_sleep = FALSE

\* main.py:19  badger.connect(), which is outside the inner try: an
\* exception it raises leaves the while loop for the finally block
Connect ==
    /\ pc = "CONNECTING"
    /\ \E ok \in BOOLEAN :
          IF ok THEN pc' = "FETCHING" /\ exc' = "none"
                ELSE pc' = "FINALLY" /\ exc' = "connect"
    /\ UNCHANGED <<exp_backoff_minutes, next_update_minutes, r, display,
                   outcome, fails, slept, final_sleep>>

\* main.py:22-31  the request, the status check and the PNG decoding; every
\* exception raised here is caught by the except branch
Fetch ==
    /\ pc = "FETCHING"
    /\ \/ /\ pc' = "DISPLAYING_ERROR"          \* mrequests.get raised
          /\ exc' = "get"
          /\ r' = NoResponse
       \/ \E resp \in Responses :
             /\ r' = resp
             /\ IF resp.status # 200
                THEN pc' = "DISPLAYING_ERROR" /\ exc' = "status"
                ELSE IF ~resp.png_ok
                THEN pc' = "DISPLAYING_ERROR" /\ exc' = "png"
                ELSE pc' = "DISPLAYING_SUCCESS" /\ exc' = "none"
    /\ UNCHANGED <<exp_backoff_minutes, next_update_minutes, display,
                   outcome, fails, slept, final_sleep>>

\* A success branch that keeps the backoff it had.
DisplaySuccessKeepsBackoff ==
    /\ pc = "DISPLAYING_SUCCESS"
    /\ display' = "image"
    /\ LET hint == NextUpdateFromHeaders(r.headers)
       IN  IF hint.err
           THEN /\ pc' = "DISPLAYING_ERROR"
                /\ exc' = "int"
                /\ UNCHANGED <<next_update_minutes, exp_backoff_minutes,
                               outcome, fails>>
           ELSE /\ pc' = "SLEEPING"
                /\ next_update_minutes' = hint.val
                /\ outcome' = "success"
                /\ fails' = 0
                /\ UNCHANGED <<exp_backoff_minutes, exc>>
    /\ UNCHANGED <<r, slept, final_sleep>>

\* main.py:32-44  badger.update() shows the image, then the headers are
\* searched for the hint; int() raising lands in the except branch with the
\* image already on the panel; otherwise the backoff is reset
DisplaySuccess ==
    /\ pc = "DISPLAYING_SUCCESS"
    /\ display' = "image"
    /\ LET hint == NextUpdateFromHeaders(r.headers)
       IN  IF hint.err
           THEN /\ pc' = "DISPLAYING_ERROR"
                /\ exc' = "int"
                /\ UNCHANGED <<next_update_minutes, exp_backoff_minutes,
                               outcome, fails>>
           ELSE /\ pc' = "SLEEPING"
                /\ next_update_minutes' = hint.val
                /\ exp_backoff_minutes' = 1
                /\ outcome' = "success"
                /\ fails' = 0
                /\ UNCHANGED exc
    /\ UNCHANGED <<r, slept, final_sleep>>

\* An except branch that doubles before it takes the sleep interval.
DisplayErrorDoublesFirst ==
    /\ pc = "DISPLAYING_ERROR"
    /\ fails < MaxFails
    /\ display' = "error"
    /\ next_update_minutes' = DoubleBackoff(exp_backoff_minutes)
    /\ exp_backoff_minutes' = DoubleBackoff(exp_backoff_minutes)
    /\ outcome' = "error"
    /\ fails' = fails + 1
    /\ pc' = "SLEEPING"
    /\ UNCHANGED <<r, exc, slept, final_sleep>>

\* main.py:45-59  the except branch: the diagnostic screen, then the sleep
\* interval is the backoff held, then the backoff is doubled
DisplayError ==
    /\ pc = "DISPLAYING_ERROR"
    /\ fails < MaxFails
    /\ display' = "error"
    /\ next_update_minutes' = exp_backoff_minutes
    /\ exp_backoff_minutes' = DoubleBackoff(exp_backoff_minutes)
    /\ outcome' = "error"
    /\ fails' = fails + 1
    /\ pc' = "SLEEPING"
    /\ UNCHANGED <<r, exc, slept, final_sleep>>

\* main.py:48-55  the display calls of the except branch raise: nothing
\* catches that inside the loop
DisplayErrorRaises ==
    /\ pc = "DISPLAYING_ERROR"
    /\ pc' = "FINALLY"
    /\ exc' = "display"
    /\ UNCHANGED <<exp_backoff_minutes, next_update_minutes, r, display,
                   outcome, fails, slept, final_sleep>>

\* A loop whose connect call sits before the while: after the sleep the
\* next cycle starts at the request.
SleepSkipsConnect ==
    /\ pc = "SLEEPING"
    /\ slept' = next_update_minutes
    /\ r' = NoResponse
    /\ \E ok \in BOOLEAN :
          IF ok THEN pc' = "FETCHING" /\ exc' = "none"
                ELSE pc' = "FINALLY" /\ exc' = "sleep"
    /\ UNCHANGED <<exp_backoff_minutes, next_update_minutes, display,
                   outcome, fails, final_sleep>>

\* main.py:61-62  sleep_for(next_update_minutes), then the next cycle; r is
\* not read again before line 22 rebinds it
Sleep ==
    /\ pc = "SLEEPING"
    /\ slept' = next_update_minutes
    /\ r' = NoResponse
    /\ \E ok \in BOOLEAN :
          IF ok THEN pc' = "CONNECTING" /\ exc' = "none"
                ELSE pc' = "FINALLY" /\ exc' = "sleep"
    /\ UNCHANGED <<exp_backoff_minutes, next_update_minutes, display,
                   outcome, fails, final_sleep>>

\* KeyboardInterrupt is not an Exception: no except branch catches it
Interrupt ==
    /\ InLoop
    /\ pc' = "FINALLY"
    /\ exc' = "KeyboardInterrupt"
    /\ UNCHANGED <<exp_backoff_minutes, next_update_minutes, r, display,
                   outcome, fails, slept, final_sleep>>

\* A finally block that ends the program without sleeping.
FinallyWithoutSleep ==
    /\ pc = "FINALLY"
    /\ pc' = "TERMINATED"
    /\ UNCHANGED <<exp_backoff_minutes, next_update_minutes, r, display,
                   exc, outcome, fails, slept, final_sleep>>

\* main.py:63-66  finally: sleep_for(24 * 60), then the program ends
Finally ==
    /\ pc = "FINALLY"
    /\ slept' = 24 * 60
    /\ final_sleep' = TRUE
    /\ pc' = "TERMINATED"
    /\ UNCHANGED <<exp_backoff_minutes, next_update_minutes, r, display,
                   exc, outcome, fails>>

(***************************************************************************)
(* Values the other components hold while one of them runs                 *)
(***************************************************************************)
ScanIdle ==
    /\ g_pc = "idle"
    /\ bins = <<>>
    /\ ref = 0
    /\ g_now = 0
    /\ g_actions = <<>>

\* rd_out before relative_date has been called
NotCalled == [raised |-> FALSE, value |-> <<>>]

RdIdle == rd_now = 0 /\ rd_then = 0 /\ rd_out = NotCalled

\* get_bin_collection_dates has not been called
ScrapeIdle == s_pc = "idle" /\ s_out = <<>> /\ s_seen = <<>>

\* get_index has not been called
HandlerIdle ==
    /\ h_pc = "idle"
    /\ h_bins = <<>>
    /\ h_today = 0
    /\ h_png = FALSE
    /\ h_scan_day = 0
    /\ next_update_date = 0
    /\ h_now = [day |-> 0, half |-> 0]
    /\ next_update_seconds = 0

SrvIdle == ScrapeIdle /\ HandlerIdle

Init == DevInit /\ ScanIdle /\ RdIdle /\ SrvIdle

Next ==
    \/ Connect /\ UNCHANGED <<scanVars, rdVars, srvVars>>
    \/ Fetch /\ UNCHANGED <<scanVars, rdVars, srvVars>>
    \/ DisplaySuccess /\ UNCHANGED <<scanVars, rdVars, srvVars>>
    \/ DisplayError /\ UNCHANGED <<scanVars, rdVars, srvVars>>
    \/ DisplayErrorRaises /\ UNCHANGED <<scanVars, rdVars, srvVars>>
    \/ Sleep /\ UNCHANGED <<scanVars, rdVars, srvVars>>
    \/ Interrupt /\ UNCHANGED <<scanVars, rdVars, srvVars>>
    \/ Finally /\ UNCHANGED <<scanVars, rdVars, srvVars>>

Spec == Init /\ [][Next]_vars

(***************************************************************************)
(* Claims about the device control loop (specification Spec)               *)
(***************************************************************************)

\* C1: in a run of consecutive handled failures that starts from backoff 1,
\* the n-th failed cycle sleeps min(24*60, 2^(n-1)) minutes and leaves the
\* backoff at min(24*60, 2^n): the sleep uses the value held before the
\* doubling, and the doubling is capped at 1440.
C1_BackoffSequence ==
    /\ (pc = "SLEEPING" /\ outcome = "error") =>
          /\ fails >= 1
          /\ next_update_minutes = Min(24 * 60, 2 ^ (fails - 1))
          /\ exp_backoff_minutes = Min(24 * 60, 2 ^ fails)
    /\ (pc \in {"CONNECTING", "FETCHING", "DISPLAYING_SUCCESS", "DISPLAYING_ERROR"}
            /\ fails >= 1) =>
          slept = Min(24 * 60, 2 ^ (fails - 1))

\* the 12th failure in a row: 2^11 is beyond the cap, the sleep is 1440
C1_Witness ==
    /\ pc = "SLEEPING" /\ outcome = "error"
    /\ fails = 12 /\ next_update_minutes = 24 * 60

\* C2: every successful cycle leaves the backoff at 1 minute, whatever run
\* of failures came before, and the failure that follows a success sleeps
\* 1 minute.
C2_ResetOnSuccess ==
    [][ /\ (outcome' = "success" => exp_backoff_minutes' = 1)
        /\ (outcome = "success" /\ outcome' = "error" => next_update_minutes' = 1)
      ]_vars

\* a success whose preceding cycle was the 11th failure in a row (only the
\* backoff produces a sleep of 1024 minutes)
C2_Witness ==
    /\ pc = "SLEEPING" /\ outcome = "success"
    /\ slept = 1024 /\ exp_backoff_minutes = 1

\* C3: the program never terminates without the finally block having
\* requested the fixed sleep of 24*60 minutes, whichever way the loop was
\* left.
C3_FinalSleep ==
    pc = "TERMINATED" => (final_sleep /\ slept = 24 * 60)

\* terminated after an exception escaped the except branch itself
C3_Witness ==
    pc = "TERMINATED" /\ exc = "display" /\ final_sleep

\* C4: a failure of badger.connect() is handled as a fetch failure: it
\* reaches the except branch (diagnostic screen, sleep for the backoff,
\* backoff doubled) and the loop goes on.
C4_ConnectFailureHandled ==
    exc = "connect" =>
        /\ pc \in {"DISPLAYING_ERROR", "SLEEPING"}
        /\ (pc = "SLEEPING" => display = "error" /\ outcome = "error")

\* the text before the first colon of a header line, without the
\* whitespace around it
HeaderName(line) == strip(partition(line).key)

\* equal up to the case of letters
SameIgnoringCase(a, b) ==
    /\ Len(a) = Len(b)
    /\ \A i \in 1..Len(a) : LowerChar(a[i]) = LowerChar(b[i])

\* the header lines that carry the hint
HintLines(headers) ==
    {i \in 1..Len(headers) : SameIgnoringCase(HeaderName(headers[i]), XNextUpdate)}

FirstOf(S) == CHOOSE i \in S : \A j \in S : i <= j

\* text that is an optional sign followed by one or more digits
IsIntegerText(v) ==
    /\ v # <<>>
    /\ \A i \in 1..Len(v) : IsDigit(v[i]) \/ (i = 1 /\ v[1] \in {"+", "-"})
    /\ \E i \in 1..Len(v) : IsDigit(v[i])

\* the response carries a hint and its value is not an integer
HintUnparseable(headers) ==
    /\ HintLines(headers) # {}
    /\ ~IsIntegerText(strip(partition(headers[FirstOf(HintLines(headers))]).value))

\* the image was fetched, decoded and shown in this cycle
ImageShownThisCycle == r.status = 200 /\ r.png_ok

\* C5 as stated: an unparseable hint after a displayed image is treated as
\* an absent hint: sleep 24 hours, the cycle is a success, the image stays.
C5_UnparseableHintIsAbsent ==
    (pc = "SLEEPING" /\ ImageShownThisCycle /\ HintUnparseable(r.headers)) =>
        /\ next_update_minutes = 24 * 60
        /\ exp_backoff_minutes = 1
        /\ outcome = "success"
        /\ display = "image"

\* C5 amended: an unparseable hint after a displayed image makes the cycle a
\* failure: the diagnostic screen replaces the image, the cycle sleeps for
\* the backoff held and the backoff is doubled (capped at 24*60).
C5_UnparseableHintIsFailure ==
    (pc = "SLEEPING" /\ ImageShownThisCycle /\ HintUnparseable(r.headers)) =>
        /\ outcome = "error"
        /\ display = "error"
        /\ fails >= 1
        /\ next_update_minutes = Min(24 * 60, 2 ^ (fails - 1))
        /\ exp_backoff_minutes = Min(24 * 60, 2 * next_update_minutes)

C5_Witness ==
    /\ pc = "SLEEPING" /\ ImageShownThisCycle /\ HintUnparseable(r.headers)
    /\ exc = "int" /\ display = "error"

\* the whole minutes in secs seconds, rounded down
WholeMinutes(secs) ==
    CHOOSE m \in -(24 * 60)..(24 * 60) : m * 60 <= secs /\ secs < (m + 1) * 60

\* C6: after a successful cycle the sleep interval is the integer value of
\* the (first) header named X-Next-Update, letter case ignored, in whole
\* minutes; 24*60 minutes when the response has no such header.
C6_SleepFromHint ==
    (pc = "SLEEPING" /\ outcome = "success") =>
        /\ ImageShownThisCycle
        /\ IF HintLines(r.headers) = {}
           THEN next_update_minutes = 24 * 60
           ELSE LET v == strip(partition(r.headers[FirstOf(HintLines(r.headers))]).value)
                IN  /\ IsIntegerText(v)
                    /\ next_update_minutes = WholeMinutes(int(v).val)

\* the hint is taken from a second header line whose name is not spelled
\* in the canonical case
C6_Witness ==
    /\ pc = "SLEEPING" /\ outcome = "success"
    /\ Len(r.headers) = 2
    /\ HintLines(r.headers) = {2}
    /\ partition(r.headers[2]).key # XNextUpdate
    /\ next_update_minutes = 60

(***************************************************************************)
(* server/bin_server.py: dates, colours and labels                         *)
(***************************************************************************)
MaxPast == 1        \* event dates up to MaxPast days before the reference date
MaxNear == 3        \* and 0..MaxNear days after it
MaxWeeks == 5       \* and 7, 14, .. 7*MaxWeeks days after it
FarAway == 100      \* and one date this many days after it
MaxDay == 50        \* relative_date is called on the days 0..MaxDay

black == <<"b","l","a","c","k">>
blue == <<"b","l","u","e">>
brown == <<"b","r","o","w","n">>
green == <<"g","r","e","e","n">>

BIN_COLOURS == {black, blue, brown, green}

\* sorted(BIN_COLOURS)
SortedColours == <<black, blue, brown, green>>

\* datetime.date.weekday(): Monday is 0; day 0 is a Monday
weekday(d) == d % 7

\* date.strftime("%A")
strftime_A(d) ==
    <<<<"M","o","n","d","a","y">>,
      <<"T","u","e","s","d","a","y">>,
      <<"W","e","d","n","e","s","d","a","y">>,
      <<"T","h","u","r","s","d","a","y">>,
      <<"F","r","i","d","a","y">>,
      <<"S","a","t","u","r","d","a","y">>,
      <<"S","u","n","d","a","y">>>>[weekday(d) + 1]

\* str.replace(" ", "-")
replace(s) == [i \in 1..Len(s) |-> IF s[i] = " " THEN "-" ELSE s[i]]

today == <<"t","o","d","a","y">>
tomorrow == <<"t","o","m","o","r","r","o","w">>
next_week == <<"n","e","x","t"," ","w","e","e","k">>
week_after_next == <<"w","e","e","k"," ","a","f","t","e","r"," ","n","e","x","t">>
three_weeks == <<"t","h","r","e","e"," ","w","e","e","k","s">>
four_weeks == <<"f","o","u","r"," ","w","e","e","k","s">>
very_long_time == <<"v","e","r","y"," ","l","o","n","g"," ","t","i","m","e">>

DateInPastError == [raised |-> TRUE, value |-> <<>>]
Returns(v) == [raised |-> FALSE, value |-> v]

(***************************************************************************)
(* server/bin_server.py:64-110  relative_date                              *)
(***************************************************************************)
\* A guard that also rejects the day itself.
InPastOrToday(now, then) == then <= now

\* bin_server.py:82
InPast(now, then) == then < now

\* A relative_date that buckets whole weeks on the plain day count.
relative_date_rolling(now, then) ==
    IF InPast(now, then) THEN DateInPastError
    ELSE IF then = now THEN Returns(today)
    ELSE LET delta == then - now
         IN  IF delta = 1 THEN Returns(tomorrow)
             ELSE IF delta < 7 THEN Returns(lower(strftime_A(then)))
             ELSE IF 7 <= delta /\ delta < 14 THEN Returns(next_week)
             ELSE IF 14 <= delta /\ delta < 21 THEN Returns(week_after_next)
             ELSE IF 21 <= delta /\ delta < 28 THEN Returns(three_weeks)
             ELSE IF 28 <= delta /\ delta < 35 THEN Returns(four_weeks)
             ELSE Returns(very_long_time)

\* A relative_date that shifts by the weekday of then instead of now.
relative_date_then_weekday(now, then) ==
    IF InPast(now, then) THEN DateInPastError
    ELSE IF then = now THEN Returns(today)
    ELSE LET delta == then - now
         IN  IF delta = 1 THEN Returns(tomorrow)
             ELSE IF delta < 7 THEN Returns(lower(strftime_A(then)))
             ELSE LET shifted == delta + weekday(then)
                  IN  IF 7 <= shifted /\ shifted < 14 THEN Returns(next_week)
                      ELSE IF 14 <= shifted /\ shifted < 21 THEN Returns(week_after_next)
                      ELSE IF 21 <= shifted /\ shifted < 28 THEN Returns(three_weeks)
                      ELSE IF 28 <= shifted /\ shifted < 35 THEN Returns(four_weeks)
                      ELSE Returns(very_long_time)

\* bin_server.py:64-110
relative_date(now, then) ==
    IF InPast(now, then) THEN DateInPastError
    ELSE IF then = now THEN Returns(today)
    ELSE LET delta == then - now
         IN  IF delta = 1 THEN Returns(tomorrow)
             ELSE IF delta < 7 THEN Returns(lower(strftime_A(then)))
             ELSE LET shifted == delta + weekday(now)
                  IN  IF 7 <= shifted /\ shifted < 14 THEN Returns(next_week)
                      ELSE IF 14 <= shifted /\ shifted < 21 THEN Returns(week_after_next)
                      ELSE IF 21 <= shifted /\ shifted < 28 THEN Returns(three_weeks)
                      ELSE IF 28 <= shifted /\ shifted < 35 THEN Returns(four_weeks)
                      ELSE Returns(very_long_time)

(***************************************************************************)
(* server/bin_server.py:113-145  ui_inkscape_actions                       *)
(***************************************************************************)
\* f".{bin_colour}.{suffix}"
Selector(bin_colour, suffix) == <<".">> \o bin_colour \o <<".">> \o suffix

\* A SelectorsOf that also marks a colour collected today as selected.
SelectorsOfSelectedToday(bin_colour, when) ==
    <<Selector(bin_colour, when)>>
    \o (IF when \in {tomorrow, today} THEN <<Selector(bin_colour, <<"s","e","l","e","c","t","e","d">>)>> ELSE <<>>)
    \o (IF when \in {tomorrow, today}
        THEN <<Selector(bin_colour, <<"o","p","e","n">>)>>
        ELSE <<Selector(bin_colour, <<"c","l","o","s","e","d">>)>>)

\* bin_server.py:129-135: the selectors one colour adds
SelectorsOf(bin_colour, when) ==
    <<Selector(bin_colour, when)>>
    \o (IF when = tomorrow THEN <<Selector(bin_colour, <<"s","e","l","e","c","t","e","d">>)>> ELSE <<>>)
    \o (IF when \in {tomorrow, today}
        THEN <<Selector(bin_colour, <<"o","p","e","n">>)>>
        ELSE <<Selector(bin_colour, <<"c","l","o","s","e","d">>)>>)

\* the loop of bin_server.py:125-135 over the first n sorted colours
RECURSIVE EnabledSelectors(_, _, _)
EnabledSelectors(b, now, n) ==
    IF n = 0 THEN <<>>
    ELSE EnabledSelectors(b, now, n - 1)
         \o SelectorsOf(SortedColours[n],
                        replace(relative_date(now, b[SortedColours[n]]).value))

\* A ui_inkscape_actions that leaves out the colours whose date is past.
ui_inkscape_actions_skips_past(b, now) ==
    Returns(EnabledSelectors([c \in BIN_COLOURS |->
                                 IF b[c] < now THEN now + FarAway ELSE b[c]],
                             now, Len(SortedColours)))

\* ui_inkscape_actions(bins, now): DateInPastError when relative_date raises
\* for some colour; otherwise the action text, of which only the list of
\* enabled selectors varies, so that list stands for the text
ui_inkscape_actions(b, now) ==
    IF \E c \in BIN_COLOURS : relative_date(now, b[c]).raised
    THEN DateInPastError
    ELSE Returns(EnabledSelectors(b, now, Len(SortedColours)))

(***************************************************************************)
(* server/bin_server.py:180-199  get_next_update                           *)
(***************************************************************************)
RefDates == 7..13          \* one reference date for each day of the week

EventOffsets == ((0 - MaxPast)..MaxNear) \cup {7 * k : k \in 1..MaxWeeks} \cup {FarAway}

ScanInit ==
    /\ g_pc = "start"
    /\ ref \in RefDates
    /\ bins \in [BIN_COLOURS -> {ref + o : o \in EventOffsets}]
    /\ g_now = ref
    /\ g_actions = <<>>

\* bin_server.py:189  the baseline; an exception here leaves the function
Baseline ==
    /\ g_pc = "start"
    /\ LET a == ui_inkscape_actions(bins, g_now)
       IN  IF a.raised
           THEN g_pc' = "raised" /\ UNCHANGED g_actions
           ELSE g_pc' = "scan" /\ g_actions' = a.value
    /\ UNCHANGED <<bins, ref, g_now>>

\* A scan that hands back the last day that still matched.
ScanStepOffByOne ==
    /\ g_pc = "scan"
    /\ LET a == ui_inkscape_actions(bins, g_now + 1)
       IN  IF ~a.raised /\ a.value = g_actions
           THEN g_pc' = "scan" /\ g_now' = g_now + 1
           ELSE g_pc' = "returned" /\ g_now' = g_now
    /\ UNCHANGED <<bins, ref, g_actions>>

\* A scan that lets DateInPastError out.
ScanStepPropagates ==
    /\ g_pc = "scan"
    /\ g_now' = g_now + 1
    /\ LET a == ui_inkscape_actions(bins, g_now + 1)
       IN  IF a.raised THEN g_pc' = "raised"
           ELSE IF a.value = g_actions THEN g_pc' = "scan"
           ELSE g_pc' = "returned"
    /\ UNCHANGED <<bins, ref, g_actions>>

\* A scan with the comparison the wrong way round.
ScanStepInverted ==
    /\ g_pc = "scan"
    /\ g_now' = g_now + 1
    /\ LET a == ui_inkscape_actions(bins, g_now + 1)
       IN  IF ~a.raised /\ a.value # g_actions
           THEN g_pc' = "scan"
           ELSE g_pc' = "returned"
    /\ UNCHANGED <<bins, ref, g_actions>>

\* A scan that compares the day it stands on and only then moves on.
ScanStepIncrementsAfter ==
    /\ g_pc = "scan"
    /\ g_now' = g_now + 1
    /\ LET a == ui_inkscape_actions(bins, g_now)
       IN  IF ~a.raised /\ a.value = g_actions
           THEN g_pc' = "scan"
           ELSE g_pc' = "returned"
    /\ UNCHANGED <<bins, ref, g_actions>>

\* A scan that never moves its cursor.
ScanStepNoAdvance ==
    /\ g_pc = "scan"
    /\ g_now' = g_now
    /\ LET a == ui_inkscape_actions(bins, g_now)
       IN  IF ~a.raised /\ a.value = g_actions
           THEN g_pc' = "scan"
           ELSE g_pc' = "returned"
    /\ UNCHANGED <<bins, ref, g_actions>>

\* bin_server.py:190-199  one turn of the while loop: the next day, then
\* continue when its actions equal the baseline; when they differ, and
\* when computing them raised DateInPastError (except: pass), break and
\* return that day (the value of g_now at "returned")
ScanStep ==
    /\ g_pc = "scan"
    /\ g_now' = g_now + 1
    /\ LET a == ui_inkscape_actions(bins, g_now + 1)
       IN  IF ~a.raised /\ a.value = g_actions
           THEN g_pc' = "scan"
           ELSE g_pc' = "returned"
    /\ UNCHANGED <<bins, ref, g_actions>>

NextNextUpdate ==
    \/ Baseline /\ UNCHANGED <<devVars, rdVars, srvVars>>
    \/ ScanStep /\ UNCHANGED <<devVars, rdVars, srvVars>>

InitNextUpdate == DevInit /\ ScanInit /\ RdIdle /\ SrvIdle

SpecNextUpdate == InitNextUpdate /\ [][NextNextUpdate]_vars

\* the calls on which termination is checked: an event today, tomorrow,
\* weeks away or far away, for each colour
SparseOffsets == {0, 1, 7 * MaxWeeks, FarAway}

ScanInitSparse ==
    /\ g_pc = "start"
    /\ ref \in RefDates
    /\ bins \in [BIN_COLOURS -> {ref + o : o \in SparseOffsets}]
    /\ g_now = ref
    /\ g_actions = <<>>

InitNextUpdateFair == DevInit /\ ScanInitSparse /\ RdIdle /\ SrvIdle

\* get_next_update is straight-line code around one loop: once called it
\* keeps taking its next step
SpecNextUpdateFair ==
    InitNextUpdateFair /\ [][NextNextUpdate]_vars /\ WF_vars(NextNextUpdate)

(***************************************************************************)
(* relative_date called directly on a pair of dates                        *)
(***************************************************************************)
RdInit ==
    /\ rd_now \in 0..MaxDay
    /\ rd_then \in 0..MaxDay
    /\ rd_out = NotCalled

Classify ==
    /\ rd_out = NotCalled
    /\ rd_out' = relative_date(rd_now, rd_then)
    /\ UNCHANGED <<rd_now, rd_then>>

NextRelativeDate == Classify /\ UNCHANGED <<devVars, scanVars, srvVars>>

InitRelativeDate == DevInit /\ ScanIdle /\ RdInit /\ SrvIdle

SpecRelativeDate == InitRelativeDate /\ [][NextRelativeDate]_vars

(***************************************************************************)
(* Claims about get_next_update (specification SpecNextUpdate)             *)
(***************************************************************************)
NoEventBeforeRef == \A c \in BIN_COLOURS : bins[c] >= ref

C8_ErrorCandidateSkipped ==
    g_pc = "returned" => ~ui_inkscape_actions(bins, g_now).raised

\* C8 amended: when computing a candidate's selectors raises
\* DateInPastError the scan does not propagate the error; it stops and
\* returns that candidate as the change date.
C8_ErrorCandidateReturned ==
    [][ (g_pc = "scan" /\ ui_inkscape_actions(bins, g_now + 1).raised) =>
            (g_pc' = "returned" /\ g_now' = g_now + 1) ]_vars

\* the returned date has passed an event's date
C8_Witness ==
    /\ g_pc = "returned"
    /\ ui_inkscape_actions(bins, g_now).raised
    /\ \E c \in BIN_COLOURS : bins[c] < g_now

EarliestEvent == CHOOSE e \in {bins[c] : c \in BIN_COLOURS} :
                    \A c \in BIN_COLOURS : e <= bins[c]

Labels ==
    {today, tomorrow, next_week, week_after_next, three_weeks, four_weeks,
     very_long_time} \cup {lower(strftime_A(d)) : d \in 0..6}

\* C10: relative_date raises DateInPastError for every pair with
\* then < now, and returns a label without raising for every pair with
\* then >= now.
C10_PastRaises ==
    rd_out # NotCalled =>
        /\ (rd_then < rd_now => rd_out = DateInPastError)
        /\ (rd_then >= rd_now => ~rd_out.raised /\ rd_out.value \in Labels)

\* relative_date was called with then before now, and raised
C10_Witness ==
    rd_then < rd_now /\ rd_out = DateInPastError

\* the label the reference definition gives a target delta days after a
\* reference date that falls on weekday index wd (Monday = 0)
WeekdayNamesLower ==
    <<<<"m","o","n","d","a","y">>,
      <<"t","u","e","s","d","a","y">>,
      <<"w","e","d","n","e","s","d","a","y">>,
      <<"t","h","u","r","s","d","a","y">>,
      <<"f","r","i","d","a","y">>,
      <<"s","a","t","u","r","d","a","y">>,
      <<"s","u","n","d","a","y">>>>

WeekBuckets == <<next_week, week_after_next, three_weeks, four_weeks>>

ReferenceLabel(delta, wd) ==
    IF delta = 0 THEN today
    ELSE IF delta = 1 THEN tomorrow
    ELSE IF delta \in 2..6 THEN WeekdayNamesLower[((wd + delta) % 7) + 1]
    ELSE IF \E k \in 1..4 : 7 * k <= delta + wd /\ delta + wd < 7 * (k + 1)
         THEN WeekBuckets[CHOOSE k \in 1..4 :
                             7 * k <= delta + wd /\ delta + wd < 7 * (k + 1)]
         ELSE very_long_time

Rank(label) ==
    IF label = next_week THEN 1
    ELSE IF label = week_after_next THEN 2
    ELSE IF label = three_weeks THEN 3
    ELSE IF label = four_weeks THEN 4
    ELSE IF label = very_long_time THEN 5
    ELSE 0

\* C12: for a fixed now, among the targets at least 7 days ahead a later
\* target never gets a strictly closer bucket than an earlier one.
C12_Monotone ==
    (rd_out # NotCalled /\ rd_then - rd_now >= 7) =>
        \A t \in (rd_now + 7)..rd_then :
            /\ Rank(relative_date(rd_now, t).value) >= 1
            /\ Rank(relative_date(rd_now, t).value) <= Rank(rd_out.value)

\* a target whose bucket is strictly farther than the day before it
C12_Witness ==
    /\ rd_out = Returns(three_weeks)
    /\ rd_then - rd_now >= 8
    /\ relative_date(rd_now, rd_then - 1) = Returns(week_after_next)

(***************************************************************************)
(* server/bin_server.py: get_bin_collection_dates.  The page is a stream   *)
(* of service items; an item is the text of its <h3> and the list of its   *)
(* <p> elements, each of which strptime either parses to a date or         *)
(* rejects.                                                                *)
(***************************************************************************)
MaxItems == 5

red == <<"r","e","d">>
bin_suffix == <<" ","b","i","n">>

\* str.removesuffix
removesuffix(s, suffix) ==
    IF /\ Len(s) >= Len(suffix)
       /\ SubSeq(s, Len(s) - Len(suffix) + 1, Len(s)) = suffix
    THEN SubSeq(s, 1, Len(s) - Len(suffix))
    ELSE s

\* the <h3> texts of the page: "Black bin" ... "Green bin", an unknown
\* "Red bin", and a known colour in capitals without the suffix
Titles ==
    { <<"B","l","a","c","k">> \o bin_suffix,
      <<"B","l","u","e">> \o bin_suffix,
      <<"B","r","o","w","n">> \o bin_suffix,
      <<"G","r","e","e","n">> \o bin_suffix,
      <<"R","e","d">> \o bin_suffix,
      <<"B","L","U","E">> }

Categories == BIN_COLOURS \cup {red}

\* the dates the page can name
PageDates == {10, 17}

\* a <p>: text that strptime parses to a date, or text it rejects
NoDateText == [parses |-> FALSE, date |-> 0]
ParagraphLists ==
    {<<>>, <<NoDateText>>}
        \cup {<<[parses |-> TRUE, date |-> d]>> : d \in PageDates}
        \cup {<<NoDateText, [parses |-> TRUE, date |-> d]>> : d \in PageDates}
        \cup {<<[parses |-> TRUE, date |-> d1], NoDateText,
                [parses |-> TRUE, date |-> d2]>> :
                  d1 \in PageDates, d2 \in PageDates}

ServiceItems == [h3 : Titles, ps : ParagraphLists]

\* bin_server.py:34
BinColourOf(bin_soup) == lower(removesuffix(bin_soup.h3, bin_suffix))

\* bin_server.py:38-48: the first <p> that parses, if any
HasDate(bin_soup) == \E i \in 1..Len(bin_soup.ps) : bin_soup.ps[i].parses
FirstDate(bin_soup) ==
    bin_soup.ps[CHOOSE i \in 1..Len(bin_soup.ps) :
                   /\ bin_soup.ps[i].parses
                   /\ \A j \in 1..(i - 1) : ~bin_soup.ps[j].parses].date

ItemsMet == IF s_seen = <<>> THEN 0
            ELSE LET Sum[S \in SUBSET Categories] ==
                         IF S = {} THEN 0
                         ELSE LET c == CHOOSE x \in S : TRUE
                              IN  s_seen[c] + Sum[S \ {c}]
                 IN  Sum[Categories]

\* bin_server.py:30
ScrapeInit ==
    /\ s_pc = "items"
    /\ s_out = <<>>
    /\ s_seen = [c \in Categories |-> 0]

\* bin_server.py:33-50: one turn of the loop over the service items
ScrapeItem ==
    /\ s_pc = "items"
    /\ ItemsMet < MaxItems
    /\ \E bin_soup \in ServiceItems :
        LET bin_colour == BinColourOf(bin_soup)
        IN  /\ s_seen' = [s_seen EXCEPT ![bin_colour] = @ + 1]
            /\ IF bin_colour \notin BIN_COLOURS
               THEN s_pc' = "raised" /\ UNCHANGED s_out
               ELSE IF ~HasDate(bin_soup)
               THEN s_pc' = "raised" /\ UNCHANGED s_out
               ELSE /\ s_out' = [c \in (DOMAIN s_out) \cup {bin_colour} |->
                                    IF c = bin_colour THEN FirstDate(bin_soup)
                                    ELSE s_out[c]]
                    /\ UNCHANGED s_pc

\* bin_server.py:52-55: the page has no more service items
ScrapeEnd ==
    /\ s_pc = "items"
    /\ IF DOMAIN s_out # BIN_COLOURS
       THEN s_pc' = "raised"
       ELSE s_pc' = "returned"
    /\ UNCHANGED <<s_out, s_seen>>

NextScrape ==
    \/ ScrapeItem /\ UNCHANGED <<devVars, scanVars, rdVars, handlerVars>>
    \/ ScrapeEnd /\ UNCHANGED <<devVars, scanVars, rdVars, handlerVars>>

InitScrape == DevInit /\ ScanIdle /\ RdIdle /\ ScrapeInit /\ HandlerIdle

SpecScrape == InitScrape /\ [][NextScrape]_vars

\* C13: get_bin_collection_dates returns only when the page gave exactly
\* one service item for each of the four colours: a missing colour, an
\* unknown colour, a colour without a parseable date and a colour that
\* appears more than once all make it raise.
C13_ExactlyOnePerColour ==
    s_pc = "returned" =>
        /\ \A c \in BIN_COLOURS : s_seen[c] = 1
        /\ s_seen[red] = 0

\* the label part of the base selectors, as the SVG template spells them
SelectorLabels ==
    { today, tomorrow,
      <<"n","e","x","t","-","w","e","e","k">>,
      <<"w","e","e","k","-","a","f","t","e","r","-","n","e","x","t">>,
      <<"t","h","r","e","e","-","w","e","e","k","s">>,
      <<"f","o","u","r","-","w","e","e","k","s">>,
      <<"v","e","r","y","-","l","o","n","g","-","t","i","m","e">> }
        \cup {WeekdayNamesLower[i] : i \in 1..7}

sel_open == <<"o","p","e","n">>
sel_closed == <<"c","l","o","s","e","d">>
sel_selected == <<"s","e","l","e","c","t","e","d">>

Occurrences(seq, x) == Cardinality({i \in 1..Len(seq) : seq[i] = x})

\* the base selectors of colour c that the list seq enables
BaseSelectors(seq, c) ==
    {l \in SelectorLabels : Occurrences(seq, Selector(c, l)) > 0}

\* C14: for a valid event set the enabled selectors hold, for each of the
\* four colours, exactly one base colour+label selector and exactly one of
\* open and closed; open iff the label is today or tomorrow, selected iff
\* the label is tomorrow; and nothing else.
C14_SelectorShape ==
    g_pc = "scan" =>
        /\ \A c \in BIN_COLOURS :
            LET delta == bins[c] - ref
            IN  /\ Cardinality(BaseSelectors(g_actions, c)) = 1
                /\ \A l \in BaseSelectors(g_actions, c) :
                       /\ Occurrences(g_actions, Selector(c, l)) = 1
                       /\ l = today <=> delta = 0
                       /\ l = tomorrow <=> delta = 1
                /\ Occurrences(g_actions, Selector(c, sel_open))
                       + Occurrences(g_actions, Selector(c, sel_closed)) = 1
                /\ Occurrences(g_actions, Selector(c, sel_open)) = 1
                       <=> delta \in {0, 1}
                /\ Occurrences(g_actions, Selector(c, sel_selected))
                       = (IF delta = 1 THEN 1 ELSE 0)
        /\ \A i \in 1..Len(g_actions) :
               \E c \in BIN_COLOURS :
               \E l \in SelectorLabels \cup {sel_open, sel_closed, sel_selected} :
                   g_actions[i] = Selector(c, l)

\* one colour today, one tomorrow, one on a named weekday, one weeks away
C14_Witness ==
    /\ g_pc = "scan"
    /\ bins[black] = ref
    /\ bins[blue] = ref + 1
    /\ bins[brown] = ref + 3
    /\ bins[green] >= ref + 7
    /\ Len(g_actions) = 9

\* C20: when some event is on the reference date and none is before it,
\* get_next_update returns exactly the day after the reference date.
C20_EventTodayReturnsTomorrow ==
    (/\ g_pc = "returned"
     /\ NoEventBeforeRef
     /\ \E c \in BIN_COLOURS : bins[c] = ref)
        => g_now = ref + 1

\* an event today and the others far away: the scan still stops at once
C20_Witness ==
    /\ g_pc = "returned"
    /\ g_now = ref + 1
    /\ bins[black] = ref
    /\ \A c \in BIN_COLOURS \ {black} : bins[c] >= ref + 7 * MaxWeeks

\* C16: get_next_update called with no event before the reference date
\* terminates: it returns a date.
C16_Terminates ==
    NoEventBeforeRef => <>(g_pc = "returned")

\* a scan that took more than two weeks of candidates before it returned
C16_Witness ==
    /\ g_pc = "returned"
    /\ NoEventBeforeRef
    /\ g_now > ref + 14

(***************************************************************************)
(* server/bin_server.py:180-199  get_next_update as a function, and        *)
(* bin_server.py:202-224  get_index.  A time of day is counted in half     *)
(* seconds since midnight, so that int() has a fraction to drop.           *)
(***************************************************************************)
MaxElapsedDays == 1

\* bin_server.py:190-197: the while loop with its cursor on now
RECURSIVE scan_from(_, _, _)
scan_from(b, actions, now) ==
    LET a == ui_inkscape_actions(b, now + 1)
    IN  IF ~a.raised /\ a.value = actions
        THEN scan_from(b, actions, now + 1)
        ELSE now + 1

\* bin_server.py:180-199
get_next_update(b, now) ==
    LET actions == ui_inkscape_actions(b, now)
    IN  IF actions.raised THEN DateInPastError
        ELSE [raised |-> FALSE, value |-> scan_from(b, actions.value, now)]

HalvesPerDay == 2 * 24 * 60 * 60

\* datetime.time(3, 0, 0), in half seconds
three_am == 2 * 3 * 60 * 60

\* int() of a number of half seconds: whole seconds, rounded towards zero
int_seconds(halves) ==
    IF halves >= 0 THEN halves \div 2 ELSE 0 - ((0 - halves) \div 2)

\* bin_server.py:212-215, in half seconds
delta(date, now) == (date - now.day) * HalvesPerDay + three_am - now.half

\* A next_update_seconds without the lower limit of one hour.
NextUpdateSecondsUnclamped(date, now) == int_seconds(delta(date, now))

\* bin_server.py:216
NextUpdateSeconds(date, now) ==
    LET d == delta(date, now)
    IN  int_seconds(IF d >= 2 * 60 * 60 THEN d ELSE 2 * 60 * 60)

\* times of day at which datetime.now() is read: midnight, 02:00:00,
\* 02:00:00.5, 03:00:00 and 23:59:59.5
TimesOfDay == {0, 2 * 2 * 60 * 60, 2 * 2 * 60 * 60 + 1, three_am, HalvesPerDay - 1}

\* the dates the scraped page gives, relative to the day of the request
HandlerOffsets == {0 - MaxPast} \cup SparseOffsets

\* the request arrives
HandlerInit ==
    /\ h_pc = "scrape"
    /\ h_bins = <<>>
    /\ h_today \in RefDates
    /\ h_png = FALSE
    /\ h_scan_day = 0
    /\ next_update_date = 0
    /\ h_now = [day |-> 0, half |-> 0]
    /\ next_update_seconds = 0

\* bin_server.py:204: get_bin_collection_dates raises, or returns a date
\* for each of the four colours
HandlerScrape ==
    /\ h_pc = "scrape"
    /\ \/ h_pc' = "failed" /\ UNCHANGED h_bins
       \/ /\ h_bins' \in [BIN_COLOURS -> {h_today + o : o \in HandlerOffsets}]
          /\ h_pc' = "render"
    /\ UNCHANGED <<h_today, h_png, h_scan_day, next_update_date, h_now,
                   next_update_seconds>>

\* bin_server.py:205: render_ui; ui_inkscape_actions raising and inkscape
\* exiting non-zero both leave get_index with an exception
HandlerRender ==
    /\ h_pc = "render"
    /\ IF ui_inkscape_actions(h_bins, h_today).raised
       THEN h_pc' = "failed" /\ UNCHANGED h_png
       ELSE \/ h_pc' = "failed" /\ UNCHANGED h_png
            \/ h_pc' = "next_update" /\ h_png' = TRUE
    /\ UNCHANGED <<h_bins, h_today, h_scan_day, next_update_date, h_now,
                   next_update_seconds>>

\* bin_server.py:211: get_next_update(bins) reads date.today() again
HandlerNextUpdate ==
    /\ h_pc = "next_update"
    /\ \E e \in 0..MaxElapsedDays :
        LET res == get_next_update(h_bins, h_today + e)
        IN  /\ h_scan_day' = h_today + e
            /\ IF res.raised
               THEN h_pc' = "failed" /\ UNCHANGED next_update_date
               ELSE h_pc' = "delta" /\ next_update_date' = res.value
    /\ UNCHANGED <<h_bins, h_today, h_png, h_now, next_update_seconds>>

\* bin_server.py:212-224: datetime.now() is read, the header is computed
\* and the response is returned
HandlerRespond ==
    /\ h_pc = "delta"
    /\ \E e \in 0..MaxElapsedDays, t \in TimesOfDay :
        /\ h_now' = [day |-> h_scan_day + e, half |-> t]
        /\ next_update_seconds' = NextUpdateSeconds(next_update_date, h_now')
    /\ h_pc' = "responded"
    /\ UNCHANGED <<h_bins, h_today, h_png, h_scan_day, next_update_date>>

NextHandler ==
    \/ HandlerScrape /\ UNCHANGED <<devVars, scanVars, rdVars, scrapeVars>>
    \/ HandlerRender /\ UNCHANGED <<devVars, scanVars, rdVars, scrapeVars>>
    \/ HandlerNextUpdate /\ UNCHANGED <<devVars, scanVars, rdVars, scrapeVars>>
    \/ HandlerRespond /\ UNCHANGED <<devVars, scanVars, rdVars, scrapeVars>>

InitHandler == DevInit /\ ScanIdle /\ RdIdle /\ ScrapeIdle /\ HandlerInit

SpecHandler == InitHandler /\ [][NextHandler]_vars

\* half seconds from h_now to 03:00 on next_update_date
HalvesUntilThreeAm ==
    ((next_update_date - h_now.day) * 86400 + 10800) * 2 - h_now.half

\* C15: the X-Next-Update value of a response is the whole seconds from now
\* to 03:00 on the date get_next_update returned, and one hour when that is
\* less than one hour away: it is always at least 3600.
C15_AtLeastOneHour ==
    h_pc = "responded" =>
        /\ next_update_seconds >= 3600
        /\ get_next_update(h_bins, h_scan_day) = [raised |-> FALSE, value |-> next_update_date]
        /\ IF HalvesUntilThreeAm < 7200
           THEN next_update_seconds = 3600
           ELSE /\ 2 * next_update_seconds <= HalvesUntilThreeAm
                /\ HalvesUntilThreeAm < 2 * (next_update_seconds + 1)

\* a response computed when 03:00 on the returned date had already passed
C15_Witness ==
    /\ h_pc = "responded"
    /\ HalvesUntilThreeAm < 0
    /\ next_update_seconds = 3600

\* C18: ui_inkscape_actions with a reference date later than an event's
\* date raises DateInPastError and gives no selectors; so get_index with an
\* event date in the past ends in an error and never renders or returns an
\* image.
C18_PastEventNoImage ==
    (h_bins # <<>> /\ \E c \in BIN_COLOURS : h_bins[c] < h_today) =>
        /\ ui_inkscape_actions(h_bins, h_today) = DateInPastError
        /\ h_pc \in {"render", "failed"}
        /\ ~h_png

\* a request that failed in render_ui on a page with a date in the past
C18_Witness ==
    /\ h_pc = "failed"
    /\ h_bins # <<>>
    /\ \E c \in BIN_COLOURS : h_bins[c] < h_today
    /\ \E c \in BIN_COLOURS : h_bins[c] = h_today + 1

(***************************************************************************)
(* The device fetching from get_index: main.py:22 requests the page that   *)
(* bin_server.py:202-224 serves.                                           *)
(***************************************************************************)
DigitChars == <<"0","1","2","3","4","5","6","7","8","9">>

\* str(n) of a natural number
RECURSIVE str_nat(_)
str_nat(n) ==
    IF n < 10 THEN <<DigitChars[n + 1]>>
    ELSE str_nat(n \div 10) \o <<DigitChars[(n % 10) + 1]>>

\* str(n) of an integer
str(n) == IF n < 0 THEN <<"-">> \o str_nat(0 - n) ELSE str_nat(n)

\* bin_server.py:204-211 as a function of the scraped dates and of the two
\* date.today() reads: the date get_next_update returned and the day it
\* read, or that get_index left with an exception
get_index_dates(b, day, e1) ==
    IF ui_inkscape_actions(b, day).raised
    THEN [failed |-> TRUE, scan_day |-> 0, date |-> 0]
    ELSE LET res == get_next_update(b, day + e1)
         IN  IF res.raised
             THEN [failed |-> TRUE, scan_day |-> 0, date |-> 0]
             ELSE [failed |-> FALSE, scan_day |-> day + e1, date |-> res.value]

\* bin_server.py:212-224 and what the device receives: 500 for an
\* exception, else the image with the headers of lines 220-223 as raw
\* lines; datetime.now() is read at time t, e2 days after the scan's day
get_index_response(dates, e2, t) ==
    IF dates.failed
    THEN [status |-> 500, png_ok |-> FALSE, headers |-> <<>>]
    ELSE [status |-> 200, png_ok |-> TRUE,
          headers |->
            << <<"C","o","n","t","e","n","t","-","T","y","p","e">>
                   \o <<":"," ","i","m","a","g","e","/","p","n","g","\r","\n">>,
               XNextUpdate \o <<":"," ">>
                   \o str(NextUpdateSeconds(dates.date,
                              [day |-> dates.scan_day + e2, half |-> t]))
                   \o <<"\r","\n">> >>]

ServerDates ==
    UNION { { get_index_dates(b, day, e1) :
                b \in [BIN_COLOURS -> {day + o : o \in HandlerOffsets}],
                e1 \in 0..MaxElapsedDays } : day \in RefDates }

ServerResponses ==
    { get_index_response(dates, e2, t) :
        dates \in ServerDates, e2 \in 0..MaxElapsedDays, t \in TimesOfDay }

\* main.py:22-31 with get_index answering the request
FetchFromServer ==
    /\ pc = "FETCHING"
    /\ \/ /\ pc' = "DISPLAYING_ERROR"          \* mrequests.get raised
          /\ exc' = "get"
          /\ r' = NoResponse
       \/ \E resp \in ServerResponses :
             /\ r' = resp
             /\ IF resp.status # 200
                THEN pc' = "DISPLAYING_ERROR" /\ exc' = "status"
                ELSE IF ~resp.png_ok
                THEN pc' = "DISPLAYING_ERROR" /\ exc' = "png"
                ELSE pc' = "DISPLAYING_SUCCESS" /\ exc' = "none"
    /\ UNCHANGED <<exp_backoff_minutes, next_update_minutes, display,
                   outcome, fails, slept, final_sleep>>

NextComposed ==
    \/ Connect /\ UNCHANGED <<scanVars, rdVars, srvVars>>
    \/ FetchFromServer /\ UNCHANGED <<scanVars, rdVars, srvVars>>
    \/ DisplaySuccess /\ UNCHANGED <<scanVars, rdVars, srvVars>>
    \/ DisplayError /\ UNCHANGED <<scanVars, rdVars, srvVars>>
    \/ DisplayErrorRaises /\ UNCHANGED <<scanVars, rdVars, srvVars>>
    \/ Sleep /\ UNCHANGED <<scanVars, rdVars, srvVars>>
    \/ Interrupt /\ UNCHANGED <<scanVars, rdVars, srvVars>>
    \/ Finally /\ UNCHANGED <<scanVars, rdVars, srvVars>>

InitComposed == DevInit /\ ScanIdle /\ RdIdle /\ SrvIdle

SpecComposed == InitComposed /\ [][NextComposed]_vars

\* C19: with get_index producing the X-Next-Update header, every interval
\* the loop passes to sleep_for is at least 1 minute: at least 60 minutes
\* after a successful cycle, between 1 and 1440 minutes after a failed one.
C19_SleepAtLeastOneMinute ==
    pc = "SLEEPING" =>
        /\ next_update_minutes >= 1
        /\ outcome \in {"success", "error"}
        /\ outcome = "success" => next_update_minutes >= 60
        /\ outcome = "error" =>
              (1 <= next_update_minutes /\ next_update_minutes <= 1440)

\* a successful cycle about to sleep for exactly the 60 minutes of the
\* server's lower limit, and a failed one about to sleep for 1440 minutes
C19_Witness ==
    /\ pc = "SLEEPING"
    /\ outcome = "success"
    /\ next_update_minutes = 60
    /\ slept = 24 * 60

(***************************************************************************)
(* firmware/main.py: the order of the stages of a cycle                    *)
(***************************************************************************)
CycleEdges ==
    { <<"CONNECTING", "FETCHING">>,
      <<"FETCHING", "DISPLAYING_SUCCESS">>,
      <<"FETCHING", "DISPLAYING_ERROR">>,
      <<"DISPLAYING_SUCCESS", "SLEEPING">>,
      <<"DISPLAYING_ERROR", "SLEEPING">>,
      <<"SLEEPING", "CONNECTING">> }

\* the per-cycle sleep is the step out of SLEEPING and touches neither the
\* response nor the panel; nothing else calls sleep_for inside the loop
OneSleepLast ==
    /\ (InLoop' /\ slept' # slept) => pc = "SLEEPING"
    /\ (pc = "SLEEPING" /\ InLoop') => slept' = next_update_minutes
    /\ pc = "SLEEPING" => display' = display
    /\ pc \in {"DISPLAYING_SUCCESS", "DISPLAYING_ERROR"} => r' = r

====
